---- MODULE Spec2Model ----
(***************************************************************************)
(* Model of the gtex_analyzer ingestion pipeline:                          *)
(*   GCTMetadata::from_lines          (src/src/gct_metadata.rs)            *)
(*   RowParser / GtexSummaryLoader    (expression_analysis/gtex_summary.rs)*)
(*   DGEResult::perform_analysis      (expression_analysis/dge.rs)         *)
(*                                                                         *)
(* Text is modelled as sequences of one-character strings, so that         *)
(* split_whitespace and the numeric parsers are computed, not assumed.     *)
(* TPM values and z-scores are f32: every operation of the statistics is  *)
(* the exact result rounded to nearest-even at 24 bits.  Thresholds are     *)
(* whole numbers.  The value tokens of the input menus are decimal         *)
(* literals or contain a letter outside the f32 literal syntax.            *)
(***************************************************************************)
EXTENDS Integers, Sequences, FiniteSets, TLC

(* ------------------------------ bounds -------------------------------- *)
\* at most this many data lines are offered by the line source in one load
MaxRows == 2

(* ------------------------- Option / io::Result ------------------------- *)
None == [some |-> FALSE, v |-> 0]
Some(x) == [some |-> TRUE, v |-> x]

Ok(x) == [tag |-> "Ok", v |-> x]
Err(e) == [tag |-> "Err", v |-> e]

\* io::Error values; the unused fields of a message are 0 / <<>>
IoError(kind, msg, line, expected, found, id, token) ==
    [kind |-> kind, msg |-> msg, line |-> line, expected |-> expected,
     found |-> found, id |-> id, token |-> token]

\* a failure of the underlying reader, surfaced by Lines::next
ReadError == IoError("Other", "read failure", 0, 0, 0, <<>>, <<>>)

(* ------------------------------- text ---------------------------------- *)
IsWhitespace(c) == c \in {" ", "\t"}

RECURSIVE SplitFrom(_, _, _)
SplitFrom(s, i, cur) ==
    IF i > Len(s)
    THEN IF cur = <<>> THEN <<>> ELSE <<cur>>
    ELSE IF IsWhitespace(s[i])
         THEN IF cur = <<>>
              THEN SplitFrom(s, i + 1, <<>>)
              ELSE <<cur>> \o SplitFrom(s, i + 1, <<>>)
         ELSE SplitFrom(s, i + 1, Append(cur, s[i]))

\* str::split_whitespace().collect()
SplitWhitespace(s) == SplitFrom(s, 1, <<>>)

Digits == <<"0", "1", "2", "3", "4", "5", "6", "7", "8", "9">>
IsDigit(c) == \E i \in 1..Len(Digits) : Digits[i] = c
DigitVal(c) == (CHOOSE i \in 1..Len(Digits) : Digits[i] = c) - 1

RECURSIVE DigitsValue(_, _)
DigitsValue(s, acc) ==
    IF s = <<>> THEN acc ELSE DigitsValue(Tail(s), 10 * acc + DigitVal(Head(s)))

AllDigits(s) == s # <<>> /\ \A i \in 1..Len(s) : IsDigit(s[i])

\* str::parse::<usize>(): an optional '+', then one or more ASCII digits
ParseUsize(tok) ==
    LET body == IF tok # <<>> /\ Head(tok) = "+" THEN Tail(tok) ELSE tok
    IN  IF AllDigits(body) THEN Ok(DigitsValue(body, 0)) ELSE Err(0)

(* ------------------- f32 arithmetic (TPMValue, ZScoreValue) -------------- *)
\* An f32 is NaN, an infinity, or sgn * m * 2^e with m = 0 (zero) or m odd; a
\* finite non-zero value has at most 24 significant bits and e >= -149.  The
\* sign of zero is not kept: it changes no comparison.  Every operation is
\* the exact result rounded to nearest, ties to even, as IEEE 754 prescribes.
Max(a, b) == IF a > b THEN a ELSE b

RECURSIVE Pow2(_)
Pow2(n) == IF n = 0 THEN 1 ELSE 2 * Pow2(n - 1)

RECURSIVE BitLen(_)
BitLen(x) == IF x = 0 THEN 0 ELSE 1 + BitLen(x \div 2)

NaN == [cls |-> "nan", sgn |-> 1, m |-> 0, e |-> 0]
Inf(sgn) == [cls |-> "inf", sgn |-> sgn, m |-> 0, e |-> 0]
Zero == [cls |-> "fin", sgn |-> 1, m |-> 0, e |-> 0]
IsNaN(x) == x.cls = "nan"
IsInf(x) == x.cls = "inf"
IsZero(x) == x.cls = "fin" /\ x.m = 0
IsFinite(x) == x.cls = "fin"

RECURSIVE Canon(_, _, _)
Canon(sgn, m, e) ==
    IF m = 0 THEN Zero
    ELSE IF m % 2 = 0 THEN Canon(sgn, m \div 2, e + 1)
    ELSE [cls |-> "fin", sgn |-> sgn, m |-> m, e |-> e]

\* a magnitude of 2^128 or more is infinite
Finite(sgn, m, e) ==
    IF BitLen(m) + e > 128 THEN Inf(sgn) ELSE Canon(sgn, m, e)

\* sgn * (M + d) * 2^E with 0 <= d < 1, d > 0 exactly when sticky, rounded to
\* 24 significant bits (fewer below 2^-126); a sticky M has 26 bits or more
Round(sgn, M, E, sticky) ==
    LET len == BitLen(M)
        sh == Max(len - 24, (0 - 149) - E)
    IN  IF sh <= 0 THEN Finite(sgn, M, E)
        ELSE IF sh > len THEN Zero
        ELSE LET q == M \div Pow2(sh)
                 r == M % Pow2(sh)
                 half == Pow2(sh - 1)
                 up == r > half \/ (r = half /\ (sticky \/ q % 2 = 1))
             IN  Finite(sgn, IF up THEN q + 1 ELSE q, E + sh)

\* a finite non-zero value with its mantissa widened to exactly 24 bits
Norm(x) ==
    LET k == 24 - BitLen(x.m)
    IN  [sgn |-> x.sgn, m |-> x.m * Pow2(k), e |-> x.e - k]

\* i as f32, for |i| < 2^24
FromInt(i) == IF i < 0 THEN Canon(0 - 1, 0 - i, 0) ELSE Canon(1, i, 0)

FNeg(x) == IF IsNaN(x) \/ IsZero(x) THEN x ELSE [x EXCEPT !.sgn = 0 - x.sgn]

\* a + b
FAdd(a, b) ==
    IF IsNaN(a) \/ IsNaN(b) THEN NaN
    ELSE IF IsInf(a) THEN (IF IsInf(b) /\ b.sgn # a.sgn THEN NaN ELSE a)
    ELSE IF IsInf(b) THEN b
    ELSE IF IsZero(a) THEN b
    ELSE IF IsZero(b) THEN a
    ELSE LET na == Norm(a)
             nb == Norm(b)
             big == IF na.e >= nb.e THEN na ELSE nb
             small == IF na.e >= nb.e THEN nb ELSE na
             diff == big.e - small.e
         IN  IF diff > 26 THEN Canon(big.sgn, big.m, big.e)
             ELSE LET B == big.m * 8
                      S == IF diff <= 3 THEN small.m * Pow2(3 - diff)
                           ELSE small.m \div Pow2(diff - 3)
                      st == diff > 3 /\ small.m % Pow2(diff - 3) # 0
                  IN  IF big.sgn = small.sgn
                      THEN Round(big.sgn, B + S, big.e - 3, st)
                      ELSE IF B >= S
                      THEN Round(big.sgn, B - S - (IF st THEN 1 ELSE 0), big.e - 3, st)
                      ELSE Round(small.sgn, S - B, big.e - 3, FALSE)

\* a - b
FSub(a, b) == FAdd(a, FNeg(b))

\* a * b: the 48-bit product of the two 24-bit mantissas, by 12-bit halves
FMul(a, b) ==
    IF IsNaN(a) \/ IsNaN(b) THEN NaN
    ELSE IF IsInf(a) \/ IsInf(b)
    THEN (IF IsZero(a) \/ IsZero(b) THEN NaN ELSE Inf(a.sgn * b.sgn))
    ELSE IF IsZero(a) \/ IsZero(b) THEN Zero
    ELSE LET na == Norm(a)
             nb == Norm(b)
             ah == na.m \div 4096
             al == na.m % 4096
             bh == nb.m \div 4096
             bl == nb.m % 4096
             mid == ah * bl + al * bh
             low == (mid % 4096) * 4096 + al * bl
             H == ah * bh + mid \div 4096 + low \div 16777216
             low24 == low % 16777216
         IN  Round(na.sgn * nb.sgn, H * 16 + low24 \div 1048576,
                   na.e + nb.e + 20, low24 % 1048576 # 0)

\* long division: quotient bits of (q + r/den) * 2^-k until q has 26 bits
RECURSIVE DivBits(_, _, _, _)
DivBits(q, r, den, k) ==
    IF q >= 33554432 THEN [q |-> q, r |-> r, k |-> k]
    ELSE IF 2 * r >= den THEN DivBits(2 * q + 1, 2 * r - den, den, k + 1)
    ELSE DivBits(2 * q, 2 * r, den, k + 1)

\* sgn * (num / den) * 2^E for integers num, den > 0
Ratio(sgn, num, den, E) ==
    LET d == DivBits(num \div den, num % den, den, 0)
    IN  Round(sgn, d.q, E - d.k, d.r # 0)

\* a / b
FDiv(a, b) ==
    IF IsNaN(a) \/ IsNaN(b) THEN NaN
    ELSE IF IsInf(a) THEN (IF IsInf(b) THEN NaN ELSE Inf(a.sgn * b.sgn))
    ELSE IF IsInf(b) THEN Zero
    ELSE IF IsZero(b) THEN (IF IsZero(a) THEN NaN ELSE Inf(a.sgn * b.sgn))
    ELSE IF IsZero(a) THEN Zero
    ELSE LET na == Norm(a)
             nb == Norm(b)
         IN  Ratio(na.sgn * nb.sgn, na.m, nb.m, na.e - nb.e)

\* the square root, two radicand bits per step: 13 pairs of the mantissa,
\* then 14 pairs of zeros
RECURSIVE SqrtBits(_, _, _, _)
SqrtBits(m, i, root, rem) ==
    IF i < 0 - 14 THEN [root |-> root, rem |-> rem]
    ELSE LET pair == IF i >= 0 THEN (m \div Pow2(2 * i)) % 4 ELSE 0
             x == 4 * rem + pair
             t == 4 * root + 1
         IN  IF x >= t THEN SqrtBits(m, i - 1, 2 * root + 1, x - t)
             ELSE SqrtBits(m, i - 1, 2 * root, x)

\* a.sqrt()
FSqrt(a) ==
    IF IsNaN(a) THEN NaN
    ELSE IF IsZero(a) THEN Zero
    ELSE IF a.sgn < 0 THEN NaN
    ELSE IF IsInf(a) THEN a
    ELSE LET na == Norm(a)
             odd == na.e % 2 # 0
             m2 == IF odd THEN 2 * na.m ELSE na.m
             e2 == IF odd THEN na.e - 1 ELSE na.e
             s == SqrtBits(m2, 12, 0, 0)
         IN  Round(1, s.root, e2 \div 2 - 14, s.rem # 0)

\* a < b for values that are not NaN
MagLess(a, b) ==
    IF IsInf(a) THEN FALSE
    ELSE IF IsInf(b) THEN TRUE
    ELSE LET na == Norm(a)
             nb == Norm(b)
         IN  na.e < nb.e \/ (na.e = nb.e /\ na.m < nb.m)
SignOf(x) == IF IsZero(x) THEN 0 ELSE x.sgn
FLess(a, b) ==
    IF SignOf(a) # SignOf(b) THEN SignOf(a) < SignOf(b)
    ELSE IF SignOf(a) = 0 THEN FALSE
    ELSE IF SignOf(a) > 0 THEN MagLess(a, b)
    ELSE MagLess(b, a)
\* a >= b and a <= b: false when either is NaN
FGe(a, b) == ~IsNaN(a) /\ ~IsNaN(b) /\ ~FLess(a, b)
FLe(a, b) == ~IsNaN(a) /\ ~IsNaN(b) /\ ~FLess(b, a)

RECURSIVE PowerOfTen(_)
PowerOfTen(n) == IF n = 0 THEN 1 ELSE 10 * PowerOfTen(n - 1)

\* str::parse::<f32>() on decimal literals: an optional sign, digits with at
\* most one '.', at least one digit; the value is the nearest f32
ParseF32(tok) ==
    LET signed == tok # <<>> /\ Head(tok) \in {"+", "-"}
        body == IF signed THEN Tail(tok) ELSE tok
        dots == {i \in 1..Len(body) : body[i] = "."}
        dot == IF dots = {} THEN Len(body) + 1 ELSE CHOOSE i \in dots : TRUE
        int == SubSeq(body, 1, dot - 1)
        frac == SubSeq(body, dot + 1, Len(body))
        digits == int \o frac
        value == DigitsValue(digits, 0)
    IN  IF Cardinality(dots) <= 1 /\ AllDigits(digits)
        THEN Ok(IF value = 0 THEN Zero
                ELSE Ratio(IF signed /\ Head(tok) = "-" THEN 0 - 1 ELSE 1,
                           value, PowerOfTen(Len(frac)), 0))
        ELSE Err(0)

(* ---------------------- GCTMetadata (gct_metadata.rs) ------------------- *)
\* what Lines::next yields: Option<io::Result<String>>
Eof == [tag |-> "None", text |-> <<>>]
Fail == [tag |-> "Err", text |-> <<>>]
Line(s) == [tag |-> "Ok", text |-> s]

NotEnoughMetadata ==
    IoError("InvalidData", "Not enough metadata lines.", 0, 0, 0, <<>>, <<>>)
InvalidSizeLine ==
    IoError("InvalidData", "Invalid size line format. Expected at least two values.",
            0, 0, 0, <<>>, <<>>)
InvalidRowCount ==
    IoError("InvalidData", "Invalid row count format", 0, 0, 0, <<>>, <<>>)
InvalidTissueCount ==
    IoError("InvalidData", "Invalid tissue count format", 0, 0, 0, <<>>, <<>>)
InvalidHeaderLength(expected, found) ==
    IoError("InvalidData", "Invalid header length. Expected {} columns, but found {}.",
            0, expected, found, <<>>, <<>>)

\* variant: a missing line is read as an empty one
NextMetadataLine_Lenient(item) ==
    CASE item.tag = "Err" -> Err(ReadError)
      [] OTHER -> Ok(item.text)

\* lines.next().ok_or_else(|| "Not enough metadata lines.")??
NextMetadataLine(item) ==
    CASE item.tag = "None" -> Err(NotEnoughMetadata)
      [] item.tag = "Err" -> Err(ReadError)
      [] OTHER -> Ok(item.text)

\* variant: a size line must have exactly two values
SizeLineTooShort_Exact(sizes) == Len(sizes) # 2

\* if sizes.len() < 2
SizeLineTooShort(sizes) == Len(sizes) < 2

\* variant: only the identifier column is added to the tissue count
NumColumns_OneExtra(num_tissues) == num_tissues + 1

\* let num_columns = num_tissues + 2
NumColumns(num_tissues) == num_tissues + 2

\* variant: the header length is not checked
HeaderLengthMismatch_Never(column_names, num_columns) == FALSE

\* variant: only a header that is too short is refused
HeaderLengthMismatch_Short(column_names, num_columns) == Len(column_names) < num_columns

\* if column_names.len() != num_columns
HeaderLengthMismatch(column_names, num_columns) == Len(column_names) # num_columns

\* the part of from_lines after the three lines were read
ParseMetadata(version, size_line, header_line) ==
    LET sizes == SplitWhitespace(size_line)
    IN  IF SizeLineTooShort(sizes) THEN Err(InvalidSizeLine)
        ELSE LET rows == ParseUsize(sizes[1])
                 tissues == ParseUsize(sizes[2])
             IN  IF rows.tag = "Err" THEN Err(InvalidRowCount)
                 ELSE IF tissues.tag = "Err" THEN Err(InvalidTissueCount)
                 ELSE LET num_columns == NumColumns(tissues.v)
                          column_names == SplitWhitespace(header_line)
                      IN  IF HeaderLengthMismatch(column_names, num_columns)
                          THEN Err(InvalidHeaderLength(num_columns, Len(column_names)))
                          ELSE Ok([version |-> version,
                                   num_rows |-> rows.v,
                                   num_columns |-> num_columns,
                                   num_tissues |-> tissues.v,
                                   column_names |-> column_names])

\* GCTMetadata::from_lines on the next three items of the line source:
\* res is the io::Result, taken the number of next() calls it made
FromLines(i1, i2, i3) ==
    LET version == NextMetadataLine(i1)
        size_line == NextMetadataLine(i2)
        header_line == NextMetadataLine(i3)
    IN  IF version.tag = "Err" THEN [res |-> version, taken |-> 1]
        ELSE IF size_line.tag = "Err" THEN [res |-> size_line, taken |-> 2]
        ELSE IF header_line.tag = "Err" THEN [res |-> header_line, taken |-> 3]
        ELSE [res |-> ParseMetadata(version.v, size_line.v, header_line.v),
              taken |-> 3]

\* GCTMetadata::new: the fields are the arguments, unchecked
NewGCTMetadata(version, num_rows, num_columns, num_tissues, column_names) ==
    [version |-> version,
     num_rows |-> num_rows,
     num_columns |-> num_columns,
     num_tissues |-> num_tissues,
     column_names |-> column_names]

\* GCTMetadata::get_tissue_names: &column_names[2..]
GetTissueNames(metadata) ==
    SubSeq(metadata.column_names, 3, Len(metadata.column_names))

(* ---------------------- DGEResult (dge.rs) ------------------------------ *)
\* iter().sum::<f32>(): the values added left to right, starting from zero
RECURSIVE FSum(_)
FSum(s) == IF s = <<>> THEN Zero ELSE FAdd(FSum(SubSeq(s, 1, Len(s) - 1)), s[Len(s)])

\* let mean = tpms.iter().copied().sum() / tpms.len() as f32
Mean(tpms) == FDiv(FSum(tpms), FromInt(Len(tpms)))

\* variant: the sample variance, divisor n - 1
Variance_Sample(tpms, mean) ==
    FDiv(FSum([j \in 1..Len(tpms) |->
                  FMul(FSub(tpms[j], mean), FSub(tpms[j], mean))]),
         FromInt(Len(tpms) - 1))

\* let variance = tpms.iter().map(|x| (x - mean).powi(2)).sum() / tpms.len() as f32
Variance(tpms, mean) ==
    FDiv(FSum([j \in 1..Len(tpms) |->
                  FMul(FSub(tpms[j], mean), FSub(tpms[j], mean))]),
         FromInt(Len(tpms)))

\* let sd = variance.sqrt()
Sd(tpms) == FSqrt(Variance(tpms, Mean(tpms)))

\* let zscore = (tpm_value - mean) / sd
ZScore(tpm_value, mean, sd) == FDiv(FSub(tpm_value, mean), sd)

\* zscore >= t and zscore <= u for a whole-number threshold; false on NaN
ZGe(z, t) == FGe(z, FromInt(t))
ZLe(z, u) == FLe(z, FromInt(u))

TissueAnalysis(tissue_name, z_score) ==
    [tissue_name |-> tissue_name, z_score |-> z_score]

\* DGEResult::new
NewDGEResult(id, symbol) ==
    [id |-> id, symbol |-> symbol, up_regulated |-> <<>>, down_regulated |-> <<>>]

Min(a, b) == IF a < b THEN a ELSE b

\* the loop of perform_analysis from position k of zip(tissue_names, tpms)
RECURSIVE AnalyseFrom(_, _, _, _, _, _, _)
AnalyseFrom(self, tissue_names, tpms, mean, sd, dge_threshold, k) ==
    IF k > Min(Len(tissue_names), Len(tpms)) THEN self
    ELSE LET zscore == ZScore(tpms[k], mean, sd)
             next ==
                 IF ZGe(zscore, dge_threshold)
                 THEN [self EXCEPT !.up_regulated =
                          Append(@, TissueAnalysis(tissue_names[k], zscore))]
                 ELSE IF ZLe(zscore, 0 - dge_threshold)
                 THEN [self EXCEPT !.down_regulated =
                          Append(@, TissueAnalysis(tissue_names[k], zscore))]
                 ELSE self
         IN  AnalyseFrom(next, tissue_names, tpms, mean, sd, dge_threshold, k + 1)

\* variant: exclusive comparisons, zscore > t and zscore < -t
RECURSIVE AnalyseStrictFrom(_, _, _, _, _, _, _)
AnalyseStrictFrom(self, tissue_names, tpms, mean, sd, dge_threshold, k) ==
    IF k > Min(Len(tissue_names), Len(tpms)) THEN self
    ELSE LET zscore == ZScore(tpms[k], mean, sd)
             next ==
                 IF ~ZLe(zscore, dge_threshold) /\ ~IsNaN(zscore)
                 THEN [self EXCEPT !.up_regulated =
                          Append(@, TissueAnalysis(tissue_names[k], zscore))]
                 ELSE IF ~ZGe(zscore, 0 - dge_threshold) /\ ~IsNaN(zscore)
                 THEN [self EXCEPT !.down_regulated =
                          Append(@, TissueAnalysis(tissue_names[k], zscore))]
                 ELSE self
         IN  AnalyseStrictFrom(next, tissue_names, tpms, mean, sd, dge_threshold, k + 1)
PerformAnalysis_Strict(self, tpms, metadata, dge_threshold) ==
    AnalyseStrictFrom(self, GetTissueNames(metadata), tpms, Mean(tpms), Sd(tpms),
                      dge_threshold, 1)

\* variant: two independent tests, "if zscore >= t" and "if zscore <= -t"
RECURSIVE AnalyseBothFrom(_, _, _, _, _, _, _)
AnalyseBothFrom(self, tissue_names, tpms, mean, sd, dge_threshold, k) ==
    IF k > Min(Len(tissue_names), Len(tpms)) THEN self
    ELSE LET zscore == ZScore(tpms[k], mean, sd)
             pair == TissueAnalysis(tissue_names[k], zscore)
             up == IF ZGe(zscore, dge_threshold)
                   THEN [self EXCEPT !.up_regulated = Append(@, pair)]
                   ELSE self
             next == IF ZLe(zscore, 0 - dge_threshold)
                     THEN [up EXCEPT !.down_regulated = Append(@, pair)]
                     ELSE up
         IN  AnalyseBothFrom(next, tissue_names, tpms, mean, sd, dge_threshold, k + 1)
PerformAnalysis_Both(self, tpms, metadata, dge_threshold) ==
    AnalyseBothFrom(self, GetTissueNames(metadata), tpms, Mean(tpms), Sd(tpms),
                    dge_threshold, 1)

\* DGEResult::perform_analysis
PerformAnalysis(self, tpms, metadata, dge_threshold) ==
    AnalyseFrom(self, GetTissueNames(metadata), tpms, Mean(tpms), Sd(tpms),
                dge_threshold, 1)

\* DGEResult::from_analysis
FromAnalysis(id, symbol, tpms, metadata, dge_threshold) ==
    PerformAnalysis(NewDGEResult(id, symbol), tpms, metadata, dge_threshold)

(* ---------------------- RowParser (gtex_summary.rs) --------------------- *)
Panic == [tag |-> "Panic", v |-> 0]

InvalidTpmValue(id, token) ==
    IoError("InvalidData", "Invalid TPM value for gene ID {}: '{}'",
            0, 0, 0, id, token)
InvalidTpmCount(line, expected, found) ==
    IoError("InvalidInput",
            "Invalid number of tpm values with respect to the header, row number {}.",
            line, expected, found, <<>>, <<>>)
DuplicateId(id) ==
    IoError("InvalidData", "Row with ID (Name) '{}' already exists",
            0, 0, 0, id, <<>>)

\* elems[2..].iter().map(parse).collect::<Result<Vec<_>, _>>() from position k:
\* the values so far, or the error of the leftmost token that does not parse
RECURSIVE CollectTpms(_, _, _, _)
CollectTpms(elems, id, k, acc) ==
    IF k > Len(elems) THEN Ok(acc)
    ELSE LET parsed == ParseF32(elems[k])
         IN  IF parsed.tag = "Err" THEN Err(InvalidTpmValue(id, elems[k]))
             ELSE CollectTpms(elems, id, k + 1, Append(acc, parsed.v))

\* variant: every token is tried and the error of the last failure is kept
RECURSIVE CollectTpmsKeepLast(_, _, _, _, _)
CollectTpmsKeepLast(elems, id, k, acc, err) ==
    IF k > Len(elems) THEN (IF err.tag = "Err" THEN err ELSE Ok(acc))
    ELSE LET parsed == ParseF32(elems[k])
         IN  IF parsed.tag = "Err"
             THEN CollectTpmsKeepLast(elems, id, k + 1, acc,
                                      Err(InvalidTpmValue(id, elems[k])))
             ELSE CollectTpmsKeepLast(elems, id, k + 1, Append(acc, parsed.v), err)
SeparateIdSymbolTpm_LastError(content) ==
    LET elems == SplitWhitespace(content)
    IN  IF Len(elems) < 2 THEN Panic
        ELSE LET id == elems[1]
                 symbol == elems[2]
                 tpms == CollectTpmsKeepLast(elems, id, 3, <<>>, Ok(0))
             IN  IF tpms.tag = "Err" THEN tpms
                 ELSE Ok([id |-> id, symbol |-> symbol, tpms |-> tpms.v])

\* RowParser::separate_id_symbol_tpm; elems[0] and elems[1] are unchecked
\* indexing, which panics on a line with fewer than two tokens
SeparateIdSymbolTpm(content) ==
    LET elems == SplitWhitespace(content)
    IN  IF Len(elems) < 2 THEN Panic
        ELSE LET id == elems[1]
                 symbol == elems[2]
                 tpms == CollectTpms(elems, id, 3, <<>>)
             IN  IF tpms.tag = "Err" THEN tpms
                 ELSE Ok([id |-> id, symbol |-> symbol, tpms |-> tpms.v])

\* variant: the row number counts data rows from 1, ignoring the header lines
RowNumber_DataOnly(index) == index + 1

\* index + 4 in the row-count message
RowNumber(index) == index + 4

\* variant: the count of values is not checked; a row of any length is analysed
ParseRow_NoCountCheck(metadata, line, index, dge_threshold) ==
    LET sep == SeparateIdSymbolTpm(line)
    IN  IF sep.tag # "Ok" THEN sep
        ELSE Ok(FromAnalysis(sep.v.id, sep.v.symbol, sep.v.tpms, metadata,
                             dge_threshold))

\* variant: the count of value tokens is checked before the tokens are parsed
ParseRow_CountFirst(metadata, line, index, dge_threshold) ==
    LET elems == SplitWhitespace(line)
    IN  IF Len(elems) >= 2 /\ Len(elems) - 2 # metadata.num_tissues
        THEN Err(InvalidTpmCount(RowNumber(index), metadata.num_tissues,
                                 Len(elems) - 2))
        ELSE LET sep == SeparateIdSymbolTpm(line)
             IN  IF sep.tag # "Ok" THEN sep
                 ELSE Ok(FromAnalysis(sep.v.id, sep.v.symbol, sep.v.tpms,
                                      metadata, dge_threshold))

\* variant: a row beyond the declared row count is rejected
ParseRow_WithinDeclared(metadata, line, index, dge_threshold) ==
    LET sep == SeparateIdSymbolTpm(line)
    IN  IF sep.tag # "Ok" THEN sep
        ELSE IF index >= metadata.num_rows \/ Len(sep.v.tpms) # metadata.num_tissues
        THEN Err(InvalidTpmCount(RowNumber(index), metadata.num_tissues, Len(sep.v.tpms)))
        ELSE Ok(FromAnalysis(sep.v.id, sep.v.symbol, sep.v.tpms, metadata,
                             dge_threshold))

\* RowParser::parse_row
ParseRow(metadata, line, index, dge_threshold) ==
    LET sep == SeparateIdSymbolTpm(line)
    IN  IF sep.tag # "Ok" THEN sep
        ELSE IF Len(sep.v.tpms) # metadata.num_tissues
        THEN Err(InvalidTpmCount(RowNumber(index), metadata.num_tissues, Len(sep.v.tpms)))
        ELSE Ok(FromAnalysis(sep.v.id, sep.v.symbol, sep.v.tpms, metadata,
                             dge_threshold))

(* ------------------- GtexSummaryLoader (gtex_summary.rs) ---------------- *)
DefaultThreshold == 2

Abs(x) == IF x < 0 THEN 0 - x ELSE x

\* variant: the threshold is stored as given, sign included
NewLoader_AsGiven(n_max, dge_threshold) ==
    [n_max |-> n_max, dge_threshold |-> dge_threshold]

\* GtexSummaryLoader::new
NewLoader(n_max, dge_threshold) ==
    [n_max |-> n_max,
     dge_threshold |-> IF dge_threshold.some THEN Some(Abs(dge_threshold.v))
                       ELSE None]

\* variant: an absent threshold counts as 0.0
ThresholdUsed_Zero(self) ==
    IF self.dge_threshold.some THEN self.dge_threshold.v ELSE 0

\* self.dge_threshold.unwrap_or(2.0)
ThresholdUsed(self) ==
    IF self.dge_threshold.some THEN self.dge_threshold.v ELSE DefaultThreshold

\* variant: the loop breaks one row late
CapReached_Late(self, index) == self.n_max.some /\ index = self.n_max.v + 1
\* variant: n_max is not consulted
CapReached_Never(self, index) == FALSE

\* if let Some(max_index) = self.n_max { if index == max_index { break; } }
CapReached(self, index) == self.n_max.some /\ index = self.n_max.v

\* GtexSummary::new
NewGtexSummary(metadata, results) == [metadata |-> metadata, results |-> results]

\* variant: results.insert(id, dge), which overwrites an occupied entry
InsertEntry_Overwrite(results, dge) ==
    Ok([x \in DOMAIN results \cup {dge.id} |-> IF x = dge.id THEN dge ELSE results[x]])
\* variant: a row with an occupied entry is skipped and the load goes on
InsertEntry_Skip(results, dge) ==
    IF dge.id \in DOMAIN results THEN Ok(results) ELSE Ok(results @@ (dge.id :> dge))

\* the match on results.entry(dge.id): the error of an occupied entry, or the
\* map with the vacant entry filled
InsertEntry(results, dge) ==
    IF dge.id \in DOMAIN results
    THEN Err(DuplicateId(dge.id))
    ELSE Ok(results @@ (dge.id :> dge))

(* --------------------------- the line source ---------------------------- *)
RECURSIVE Join(_)
Join(tokens) ==
    IF tokens = <<>> THEN <<>>
    ELSE IF Len(tokens) = 1 THEN tokens[1]
    ELSE tokens[1] \o <<" ">> \o Join(Tail(tokens))

tID == <<"I", "D">>
tS == <<"S">>
tT1 == <<"T", "1">>
tT2 == <<"T", "2">>
tT3 == <<"T", "3">>
tG1 == <<"G", "1">>
tG2 == <<"G", "2">>
tG3 == <<"G", "3">>
tS1 == <<"S", "1">>
tS2 == <<"S", "2">>

VersionLines == { <<"v", "1">>, <<"#", "1", ".", "2", " ">> }

SizeLines ==
    { Join(<< <<"1">>, <<"2">> >>),
      Join(<< <<"1", "0">>, <<"3">> >>),
      <<" ">> \o Join(<< <<"+", "2">>, <<"2">>, <<"7">> >>),
      <<"2">>,
      <<>>,
      Join(<< <<"x">>, <<"2">> >>),
      Join(<< <<"2">>, <<"-", "2">> >>) }

HeaderLines ==
    { Join(<<tID, tS, tT1, tT2>>),
      <<" ">> \o Join(<<tID, tS, tT1>>) \o <<"\t">> \o tT1 \o <<" ">>,
      Join(<<tID, tS, tT1, tT2, tT3>>),
      Join(<<tID, tS, tT1>>) }

DataLines ==
    { Join(<<tG1, tS1, <<"0">>, <<"2">> >>),
      Join(<<tG2, tS2, <<"1">>, <<"1">> >>),
      <<" ">> \o Join(<<tG1, tS2, <<"+", "2">>, <<"-", "1">> >>) \o <<" ">>,
      Join(<<tG2, tS1, <<"0">>, <<"1">>, <<"2">> >>),
      Join(<<tG1, tS1, <<"3">> >>),
      Join(<<tG1, tS2, <<"x">>, <<"1">>, <<"y">> >>),
      Join(<<tG3, tS1, <<"0", ".", "9">>, <<"0", ".", "9">>, <<"0", ".", "9">> >>),
      tG3,
      <<>> }

\* arguments of GCTMetadata::new: a consistent schema, and the one the tests
\* of gct_results.rs build (5 columns, 3 tissues, 2 names)
MetadataArgs ==
    { [version |-> <<"v", "1">>, num_rows |-> 1, num_columns |-> 3,
       num_tissues |-> 1, column_names |-> <<tID, tS, tT1>>],
      [version |-> <<"v", "1">>, num_rows |-> 2, num_columns |-> 5,
       num_tissues |-> 3, column_names |-> <<tID, tS>>] }

ThresholdArgs == {None, Some(0 - 1), Some(0), Some(1), Some(2)}
NMaxArgs == {None} \cup {Some(n) : n \in 0..MaxRows}

\* what the line source may yield at physical position pos (1-based)
SourceItems(pos) ==
    CASE pos = 1 -> {Eof, Fail} \cup {Line(l) : l \in VersionLines}
      [] pos = 2 -> {Eof, Fail} \cup {Line(l) : l \in SizeLines}
      [] pos = 3 -> {Eof, Fail} \cup {Line(l) : l \in HeaderLines}
      [] pos > 3 /\ pos <= 3 + MaxRows ->
             {Eof, Fail} \cup {Line(l) : l \in DataLines}
      [] OTHER -> {Eof}

(* ------------------------------- state ---------------------------------- *)
VARIABLES
    args,       \* the arguments GtexSummaryLoader::new was called with
    loader,     \* the GtexSummaryLoader: n_max, dge_threshold
    pc,         \* position of load_summary: idle, meta, loop, row, done
    pulled,     \* the items Lines::next has yielded in this load, in order
    metadata,   \* the local metadata of load_summary (Some once parsed)
    results,    \* the local HashMap results: identifier -> DGEResult
    index,      \* the enumerate() index of the item in hand
    parsed,     \* the indices parse_row was called with in this load
    outcome,    \* what load_summary returned: none yet, Ok, Err or Panic
    made,       \* a GCTMetadata a caller built with GCTMetadata::new, if any
    earlier     \* the identifiers stored by the loads a caller has noted

vars == <<args, loader, pc, pulled, metadata, results, index, parsed, outcome, made,
         earlier>>

NoOutcome == [tag |-> "none", v |-> 0]

Init ==
    /\ \E n \in NMaxArgs, t \in ThresholdArgs :
          /\ args = [n_max |-> n, dge_threshold |-> t]
          /\ loader = NewLoader(n, t)
    /\ pc = "idle"
    /\ pulled = <<>>
    /\ metadata = None
    /\ results = <<>>
    /\ index = 0
    /\ parsed = {}
    /\ outcome = NoOutcome
    /\ made = None
    /\ earlier = {}

\* load_summary is called on the loader, for the first time or again after an
\* earlier load has returned: let mut lines = data.lines()
LoadSummary ==
    /\ pc \in {"idle", "done"}
    /\ pc' = "meta"
    /\ pulled' = <<>>
    /\ metadata' = None
    /\ results' = <<>>
    /\ index' = 0
    /\ parsed' = {}
    /\ outcome' = NoOutcome
    /\ UNCHANGED <<made, earlier, args, loader>>

\* let metadata = GCTMetadata::from_lines(&mut lines)?; let mut results = HashMap::new()
ReadMetadata ==
    /\ pc = "meta"
    /\ \E i1 \in SourceItems(1), i2 \in SourceItems(2), i3 \in SourceItems(3) :
          LET r == FromLines(i1, i2, i3)
          IN  /\ pulled' = SubSeq(<<i1, i2, i3>>, 1, r.taken)
              /\ IF r.res.tag = "Ok"
                 THEN /\ metadata' = Some(r.res.v)
                      /\ pc' = "loop"
                      /\ outcome' = outcome
                 ELSE /\ metadata' = metadata
                      /\ pc' = "done"
                      /\ outcome' = r.res
    /\ results' = <<>>
    /\ UNCHANGED <<made, earlier, args, loader, index, parsed>>

\* for (index, line) in lines.enumerate(): the next item is taken from the
\* source; the loop ends at None, and breaks when index == n_max
NextLine ==
    /\ pc = "loop"
    /\ \E item \in SourceItems(Len(pulled) + 1) :
          /\ pulled' = Append(pulled, item)
          /\ IF item.tag = "None"
             THEN /\ index' = index
                  /\ pc' = "done"
                  /\ outcome' = Ok(NewGtexSummary(metadata.v, results))
             ELSE /\ index' = Len(pulled) - 3
                  /\ IF CapReached(loader, Len(pulled) - 3)
                     THEN /\ pc' = "done"
                          /\ outcome' = Ok(NewGtexSummary(metadata.v, results))
                     ELSE /\ pc' = "row"
                          /\ outcome' = outcome
    /\ UNCHANGED <<made, earlier, args, loader, metadata, results, parsed>>

\* the loop body: parser.parse_row(&line?, index, threshold_used)? and the
\* match on results.entry(dge.id)
ProcessRow ==
    /\ pc = "row"
    /\ LET line == pulled[Len(pulled)]
           threshold_used == ThresholdUsed(loader)
       IN  IF line.tag = "Err"
           THEN /\ pc' = "done"
                /\ outcome' = Err(ReadError)
                /\ UNCHANGED <<results, parsed>>
           ELSE LET dge == ParseRow(metadata.v, line.text, index, threshold_used)
                IN  /\ parsed' = parsed \cup {index}
                    /\ IF dge.tag # "Ok"
                       THEN /\ pc' = "done"
                            /\ outcome' = dge
                            /\ results' = results
                       ELSE LET ins == InsertEntry(results, dge.v)
                            IN  IF ins.tag = "Err"
                                THEN /\ pc' = "done"
                                     /\ outcome' = ins
                                     /\ results' = results
                                ELSE /\ pc' = "loop"
                                     /\ outcome' = outcome
                                     /\ results' = ins.v
    /\ UNCHANGED <<made, earlier, args, loader, pulled, metadata, index>>

Next == LoadSummary \/ ReadMetadata \/ NextLine \/ ProcessRow

Spec == Init /\ [][Next]_vars

\* a caller builds a GCTMetadata with the public constructor
ConstructMetadata ==
    /\ pc = "idle"
    /\ ~made.some
    /\ \E a \in MetadataArgs :
          made' = Some(NewGCTMetadata(a.version, a.num_rows, a.num_columns,
                                      a.num_tissues, a.column_names))
    /\ UNCHANGED <<args, loader, pc, pulled, metadata, results, index, parsed,
                   outcome, earlier>>

\* loads, and constructions of a GCTMetadata by hand
NextNew == Next \/ ConstructMetadata

SpecNew == Init /\ [][NextNew]_vars

\* variant: the call reconfigures the loader it is made on (&mut self)
LoadAgain_TakesCap ==
    /\ pc = "done"
    /\ earlier' = earlier \cup DOMAIN results
    /\ loader' = [loader EXCEPT !.n_max = Some(0)]
    /\ pc' = "meta"
    /\ pulled' = <<>>
    /\ metadata' = None
    /\ results' = <<>>
    /\ index' = 0
    /\ parsed' = {}
    /\ outcome' = NoOutcome
    /\ UNCHANGED <<made, args>>

\* load_summary(&self, data) is called again on the same loader after a load
\* has returned, the caller noting the identifiers that load had stored
LoadAgain ==
    /\ pc = "done"
    /\ earlier' = earlier \cup DOMAIN results
    /\ pc' = "meta"
    /\ pulled' = <<>>
    /\ metadata' = None
    /\ results' = <<>>
    /\ index' = 0
    /\ parsed' = {}
    /\ outcome' = NoOutcome
    /\ UNCHANGED <<made, args, loader>>

\* loads, and further loads on the same loader with their history noted
NextLoads == Next \/ LoadAgain

\* the loaders that are loaded repeatedly: every row cap, with no threshold
\* or a negative one
InitLoads == Init /\ args.dge_threshold \in {None, Some(0 - 1)}

SpecLoads == InitLoads /\ [][NextLoads]_vars

(* ===================== properties of the input text ===================== *)
(* The words of a line and the value of a numeral, stated directly on the   *)
(* characters, independently of the operators that model the code.          *)
IsStart(s, i) == ~IsWhitespace(s[i]) /\ (i = 1 \/ IsWhitespace(s[i - 1]))
Starts(s) == {i \in 1..Len(s) : IsStart(s, i)}
EndOf(s, i) ==
    CHOOSE j \in i..Len(s) :
        /\ \A k \in i..j : ~IsWhitespace(s[k])
        /\ j = Len(s) \/ IsWhitespace(s[j + 1])
WordAt(s, n) ==
    LET i == CHOOSE x \in Starts(s) : Cardinality({y \in Starts(s) : y <= x}) = n
    IN  SubSeq(s, i, EndOf(s, i))
\* the words of every line the source can yield, computed once per line
MenuLines == VersionLines \cup SizeLines \cup HeaderLines \cup DataLines
WordsOfLine ==
    [l \in MenuLines |-> [n \in 1..Cardinality(Starts(l)) |-> WordAt(l, n)]]
NumWords(s) == Len(WordsOfLine[s])
Word(s, n) == WordsOfLine[s][n]
WordsFrom(s, n) == [k \in 1..(NumWords(s) - n + 1) |-> Word(s, k + n - 1)]

RECURSIVE Sum(_)
Sum(s) == IF s = <<>> THEN 0 ELSE Head(s) + Sum(Tail(s))
RECURSIVE Pow10(_)
Pow10(n) == IF n = 0 THEN 1 ELSE 10 * Pow10(n - 1)
DigitString(s) == s # <<>> /\ \A i \in 1..Len(s) : \E d \in 1..Len(Digits) : s[i] = Digits[d]
Magnitude(s) == Sum([i \in 1..Len(s) |-> DigitVal(s[i]) * Pow10(Len(s) - i)])
Unsigned(tok) == IF tok # <<>> /\ tok[1] \in {"+", "-"} THEN Tail(tok) ELSE tok
\* a non-negative integer numeral, and a signed whole-number literal
IsNatural(tok) == tok # <<>> /\ tok[1] # "-" /\ DigitString(Unsigned(tok))
\* a decimal literal: an optional sign, digits with at most one '.', at least
\* one digit; its value is the f32 nearest to the decimal fraction
DigitChar(c) == \E d \in 1..Len(Digits) : c = Digits[d]
IsNumber(tok) ==
    LET u == Unsigned(tok)
    IN  /\ \A i \in 1..Len(u) : DigitChar(u[i]) \/ u[i] = "."
        /\ \E i \in 1..Len(u) : DigitChar(u[i])
        /\ \A i, j \in 1..Len(u) : u[i] = "." /\ u[j] = "." => i = j
TpmValue(tok) ==
    LET u == Unsigned(tok)
        after == Cardinality({i \in 1..Len(u) : \E j \in 1..(i - 1) : u[j] = "."})
        whole == Magnitude(SelectSeq(u, DigitChar))
    IN  IF whole = 0 THEN Zero
        ELSE Ratio(IF tok[1] = "-" THEN 0 - 1 ELSE 1, whole, Pow10(after), 0)
NumberValue(tok) ==
    IF tok[1] = "-" THEN 0 - Magnitude(Unsigned(tok)) ELSE Magnitude(Unsigned(tok))

(* ------------------- the input as seen in the history ------------------- *)
Done == pc = "done"
\* the three header lines were all read as text
HeaderRead == Len(pulled) >= 3 /\ \A i \in 1..3 : pulled[i].tag = "Ok"
VersionText == pulled[1].text
SizeText == pulled[2].text
HeaderText == pulled[3].text
\* the size line declares row and tissue counts
SizesDeclared ==
    /\ NumWords(SizeText) >= 2
    /\ IsNatural(Word(SizeText, 1))
    /\ IsNatural(Word(SizeText, 2))
DeclaredRows == NumberValue(Word(SizeText, 1))
DeclaredTissues == NumberValue(Word(SizeText, 2))
HeaderWellFormed ==
    HeaderRead /\ SizesDeclared /\ NumWords(HeaderText) = DeclaredTissues + 2

\* data rows are numbered from 0; row i is physical line i + 4
RowPulled(i) == i >= 0 /\ i + 4 <= Len(pulled)
RowItem(i) == pulled[i + 4]
RowIsText(i) == RowPulled(i) /\ RowItem(i).tag = "Ok"
RowText(i) == RowItem(i).text
RowHasId(i) == RowIsText(i) /\ NumWords(RowText(i)) >= 1
RowId(i) == Word(RowText(i), 1)
RowSymbol(i) == Word(RowText(i), 2)
RowValueWords(i) == WordsFrom(RowText(i), 3)
RowSplits(i) ==
    /\ RowIsText(i)
    /\ NumWords(RowText(i)) >= 2
    /\ \A k \in 1..Len(RowValueWords(i)) : IsNumber(RowValueWords(i)[k])
\* the values and the z-scores of the numeric lines of the menu
LineSplits(l) ==
    /\ NumWords(l) >= 2
    /\ \A k \in 1..Len(WordsFrom(l, 3)) : IsNumber(WordsFrom(l, 3)[k])
LineValues(l) == [k \in 1..Len(WordsFrom(l, 3)) |-> TpmValue(WordsFrom(l, 3)[k])]
LineZScores(l) ==
    LET vals == LineValues(l)
        mean == Mean(vals)
        sd == Sd(vals)
    IN  [k \in 1..Len(vals) |-> ZScore(vals[k], mean, sd)]
ValuesOfLine == [l \in {x \in DataLines : LineSplits(x)} |-> LineValues(l)]
ZScoresOfLine == [l \in {x \in DataLines : LineSplits(x)} |-> LineZScores(l)]
RowValues(i) == ValuesOfLine[RowText(i)]
RowWellFormed(i) == RowSplits(i) /\ Len(RowValueWords(i)) = DeclaredTissues
\* the row is below the cap, if one is set
BelowCap(i) == ~loader.n_max.some \/ i < loader.n_max.v
\* the last item pulled, as a row index
LastRow == Len(pulled) - 4

IsDuplicateError(e, id) ==
    e.msg = "Row with ID (Name) '{}' already exists" /\ e.id = id
IsRowCountError(e, line, expected, found) ==
    /\ e.msg = "Invalid number of tpm values with respect to the header, row number {}."
    /\ e.line = line /\ e.expected = expected /\ e.found = found

\* the (tissue, z-score) pairs of well-formed row i, in header column order
RowScores(i) ==
    LET tissues == WordsFrom(HeaderText, 3)
        z == ZScoresOfLine[RowText(i)]
    IN  [k \in 1..Len(z) |-> [tissue_name |-> tissues[k], z_score |-> z[k]]]
IsUp(p) == ZGe(p.z_score, ThresholdUsed(loader))
IsDown(p) == ZLe(p.z_score, 0 - ThresholdUsed(loader))
IsDownOnly(p) == IsDown(p) /\ ~IsUp(p)
\* the entry the store holds for well-formed row i
RowEntry(i) ==
    [id |-> RowId(i), symbol |-> RowSymbol(i),
     up_regulated |-> SelectSeq(RowScores(i), IsUp),
     down_regulated |-> SelectSeq(RowScores(i), IsDownOnly)]

(* ============================== claims ================================== *)

\* C1 (as stated): whenever a processed row j carries the identifier of an
\* earlier row of the same load, the load returns the duplicate-identifier error
\* naming it when row j is reached.
C1_Original ==
    \A j \in parsed :
        (RowHasId(j) /\ \E i \in 0..(j - 1) : RowHasId(i) /\ RowId(i) = RowId(j))
        => (Done /\ outcome.tag = "Err" /\ IsDuplicateError(outcome.v, RowId(j)))

\* C1 (amended): when a processed row j carries the identifier of an earlier row i
\* and row j itself splits into identifier, label and numeric values of the
\* declared count, the load returns the duplicate-identifier error naming that
\* identifier; the entry of row i is kept as built from row i, no row is skipped,
\* row j is the last item taken from the source and no store is returned.
C1_DuplicateAborts ==
    \A j \in parsed : \A i \in 0..(j - 1) :
        (RowWellFormed(j) /\ RowHasId(i) /\ RowId(i) = RowId(j))
        => /\ Done
           /\ outcome.tag = "Err"
           /\ IsDuplicateError(outcome.v, RowId(j))
           /\ RowId(i) \in DOMAIN results
           /\ results[RowId(i)] = RowEntry(i)
           /\ Cardinality(DOMAIN results) = j
           /\ parsed = 0..j
           /\ LastRow = j

C1_Witness ==
    /\ Done /\ LastRow \in parsed /\ LastRow >= 1 /\ RowWellFormed(LastRow)
    /\ RowId(0) = RowId(LastRow) /\ RowSymbol(0) # RowSymbol(LastRow)
    /\ outcome.tag = "Err" /\ IsDuplicateError(outcome.v, RowId(0))

\* the rows the loop body is run on, and their being free of every row-level error
ProcessedRows == {i \in 0..LastRow : RowPulled(i) /\ RowItem(i).tag # "None" /\ BelowCap(i)}
AllRowsGood ==
    /\ \A i \in ProcessedRows : RowWellFormed(i)
    /\ \A i, j \in ProcessedRows : i # j => RowId(i) # RowId(j)

\* C2: a finished load returned a store exactly when the header is well formed
\* and every processed row is well formed with an identifier of its own; the
\* store then holds one entry per processed row, and a failed load returns an
\* error value that carries no entry.
C2_WholeOrNothing ==
    Done =>
        /\ outcome.tag = "Ok" <=> (HeaderWellFormed /\ AllRowsGood)
        /\ outcome.tag = "Ok" =>
              /\ DOMAIN outcome.v.results = {RowId(i) : i \in ProcessedRows}
              /\ Cardinality(DOMAIN outcome.v.results) = Cardinality(ProcessedRows)
        /\ outcome.tag = "Err" =>
              DOMAIN outcome.v = {"kind", "msg", "line", "expected", "found", "id", "token"}
        /\ outcome.tag \in {"Ok", "Err", "Panic"}

C2_Witness ==
    /\ Done /\ outcome.tag = "Err" /\ LastRow >= 1
    /\ DOMAIN results # {} /\ ~RowWellFormed(LastRow) /\ RowIsText(LastRow)

\* C3: a processed row at index i whose values are all numeric but whose count
\* differs from the declared tissue count aborts the load with the row-count
\* error reporting the physical line number i + 4, the declared count and the
\* found count.
C3_RowCountError ==
    \A i \in parsed :
        (RowSplits(i) /\ Len(RowValueWords(i)) # DeclaredTissues)
        => /\ Done
           /\ outcome.tag = "Err"
           /\ IsRowCountError(outcome.v, i + 4, DeclaredTissues, Len(RowValueWords(i)))
           /\ Len(pulled) = outcome.v.line
           /\ outcome.v.expected = metadata.v.num_tissues

C3_Witness ==
    /\ Done /\ LastRow \in parsed /\ LastRow >= 1 /\ RowSplits(LastRow)
    /\ Len(RowValueWords(LastRow)) < DeclaredTissues
    /\ outcome.tag = "Err" /\ outcome.v.line = 5

\* C4: with a row cap N, no row at index >= N is ever parsed, and when the rows
\* below the cap are well formed with distinct identifiers the load succeeds with
\* exactly min(N, M) entries, whatever the item at index N is.
C4_RowCap ==
    loader.n_max.some =>
        /\ \A i \in parsed : i < loader.n_max.v
        /\ (Done /\ metadata.some /\ AllRowsGood) =>
              /\ outcome.tag = "Ok"
              /\ Cardinality(DOMAIN outcome.v.results) =
                    Min(loader.n_max.v, Cardinality({i \in 0..LastRow : RowItem(i).tag # "None"}))

C4_Witness ==
    /\ Done /\ loader.n_max = Some(1) /\ LastRow = 1
    /\ RowIsText(1) /\ ~RowWellFormed(1)
    /\ outcome.tag = "Ok" /\ Cardinality(DOMAIN outcome.v.results) = 1

\* C5 (as stated): with a row cap N at most N data lines are requested from the
\* line source, so the item at row index N is never pulled.
C5_Original ==
    loader.n_max.some =>
        \A i \in 0..LastRow : RowItem(i).tag # "None" => i < loader.n_max.v

\* C5 (amended): with a row cap N at most N + 1 data items are requested: the item
\* at row index N is pulled by the loop header and the loop then breaks without
\* unwrapping or parsing it, so a read failure on it does not matter; no item
\* beyond index N is requested.
C5_CapPullsOneMore ==
    loader.n_max.some =>
        /\ Len(pulled) <= 4 + loader.n_max.v
        /\ (Len(pulled) = 4 + loader.n_max.v /\ RowItem(loader.n_max.v).tag # "None") =>
              /\ Done
              /\ outcome.tag = "Ok"
              /\ loader.n_max.v \notin parsed
              /\ Cardinality(DOMAIN outcome.v.results) = loader.n_max.v

C5_Witness ==
    /\ loader.n_max = Some(1) /\ Len(pulled) = 5 /\ RowItem(1).tag = "Err"
    /\ Done /\ outcome.tag = "Ok"

\* the input ends after zero, one or two text lines
FewerThanThreeLines ==
    \E n \in 1..Min(3, Len(pulled)) :
        pulled[n].tag = "None" /\ \A k \in 1..(n - 1) : pulled[k].tag = "Ok"

\* C6: when the input has fewer than three lines (the line source ends after
\* zero, one or two text lines), the load returns the format error
\* "Not enough metadata lines." and no store.
C6_NotEnoughLines ==
    (pc \notin {"idle", "meta"} /\ FewerThanThreeLines)
    => /\ Done
       /\ outcome = Err(NotEnoughMetadata)
       /\ outcome.v.msg = "Not enough metadata lines."
       /\ outcome.v.kind = "InvalidData"
       /\ ~metadata.some /\ parsed = {}

C6_Witness ==
    Done /\ Len(pulled) = 3 /\ pulled[3].tag = "None" /\ pulled[2].tag = "Ok"
         /\ outcome.tag = "Err"

\* C7: when the size line declares R and T and the header line has exactly T + 2
\* words, from_lines succeeds with the first line verbatim as version, num_rows R,
\* num_tissues T, num_columns T + 2 and the header words in order as column
\* names; exactly three lines are consumed, so the next item taken is physical
\* line four at row index 0.
C7_MetadataParsed ==
    (pc \notin {"idle", "meta"} /\ HeaderWellFormed)
    => /\ metadata.some
       /\ metadata.v.version = VersionText
       /\ metadata.v.num_rows = DeclaredRows
       /\ metadata.v.num_tissues = DeclaredTissues
       /\ metadata.v.num_columns = DeclaredTissues + 2
       /\ metadata.v.column_names = WordsFrom(HeaderText, 1)
       /\ pc = "loop" /\ parsed = {} => Len(pulled) = 3
       /\ pc = "row" => index = Len(pulled) - 4
       /\ pc = "row" /\ parsed = {} => Len(pulled) = 4 /\ index = 0

C7_Witness ==
    /\ pc = "row" /\ index = 0 /\ HeaderWellFormed /\ Len(pulled) = 4
    /\ NumWords(SizeText) = 3 /\ metadata.v.num_tissues = 2
    /\ Len(VersionText) > 2

\* C8: a header line whose word count differs from the declared tissue count + 2
\* fails schema parsing with the header-length error reporting the expected and
\* the found count; no data line is taken or processed.
C8_HeaderLengthError ==
    (/\ pc \notin {"idle", "meta"} /\ HeaderRead /\ SizesDeclared
     /\ NumWords(HeaderText) # DeclaredTissues + 2)
    => /\ Done
       /\ outcome = Err(InvalidHeaderLength(DeclaredTissues + 2, NumWords(HeaderText)))
       /\ outcome.v.kind = "InvalidData"
       /\ ~metadata.some /\ parsed = {} /\ Len(pulled) = 3 /\ results = <<>>

C8_Witness ==
    /\ Done /\ HeaderRead /\ SizesDeclared
    /\ NumWords(HeaderText) > DeclaredTissues + 2
    /\ outcome.tag = "Err" /\ outcome.v.expected = 4 /\ outcome.v.found = 5

SizeErrors == {InvalidSizeLine, InvalidRowCount, InvalidTissueCount}

\* C9: a size line with fewer than two words, or whose first or second word is
\* not a non-negative integer, fails schema parsing with a format error; a size
\* line with more than two words is accepted on its first two words alone.
C9_SizeLine ==
    (pc \notin {"idle", "meta"} /\ HeaderRead)
    => /\ ~SizesDeclared =>
             /\ Done /\ outcome.tag = "Err" /\ outcome.v \in SizeErrors
             /\ outcome.v.kind = "InvalidData" /\ ~metadata.some
       /\ (SizesDeclared /\ NumWords(SizeText) > 2
             /\ NumWords(HeaderText) = DeclaredTissues + 2) =>
             /\ metadata.some
             /\ metadata.v.num_rows = DeclaredRows
             /\ metadata.v.num_tissues = DeclaredTissues

C9_Witness ==
    /\ Done /\ HeaderRead /\ NumWords(SizeText) = 2 /\ IsNatural(Word(SizeText, 1))
    /\ ~IsNatural(Word(SizeText, 2)) /\ outcome = Err(InvalidTissueCount)

\* row i was classified and inserted: it was processed, is well formed and is the
\* first row of the load with its identifier
Inserted(i) ==
    /\ i \in parsed /\ RowWellFormed(i)
    /\ \A k \in 0..(i - 1) : RowId(k) # RowId(i)

\* C10 (as stated): for every inserted row, up_regulated lists, in tissue-column
\* order, exactly the tissues with z >= t, and down_regulated exactly the tissues
\* with z <= -t (ties included).
C10_Original ==
    \A i \in 0..LastRow :
        Inserted(i) =>
            /\ RowId(i) \in DOMAIN results
            /\ results[RowId(i)].up_regulated = SelectSeq(RowScores(i), IsUp)
            /\ results[RowId(i)].down_regulated = SelectSeq(RowScores(i), IsDown)

\* C10 (amended): for every inserted row, up_regulated lists, in tissue-column
\* order, exactly the tissues with z >= t, and down_regulated exactly the tissues
\* with z <= -t that are not already up-regulated (z < t); ties at t and -t are
\* included and neither list is reordered by score.
C10_Classification ==
    \A i \in 0..LastRow :
        Inserted(i) =>
            /\ RowId(i) \in DOMAIN results
            /\ results[RowId(i)].up_regulated = SelectSeq(RowScores(i), IsUp)
            /\ results[RowId(i)].down_regulated = SelectSeq(RowScores(i), IsDownOnly)

\* a tie on both sides: z = 1 and z = -1 under threshold 1
C10_Witness ==
    /\ ThresholdUsed(loader) = 1
    /\ \E id \in DOMAIN results :
          /\ Len(results[id].up_regulated) = 1 /\ Len(results[id].down_regulated) = 1
          /\ results[id].up_regulated[1].z_score = FromInt(1)
          /\ results[id].down_regulated[1].z_score = FromInt(0 - 1)
          /\ results[id].up_regulated[1].tissue_name = <<"T", "1">>

(* ------------------------------------------------------------------------ *)
\* a load has returned a store
StoreBuilt == Done /\ outcome.tag = "Ok"
\* the tissue names of the header, in column order, and whether they differ
HeaderTissues == WordsFrom(HeaderText, 3)
TissuesDistinct ==
    \A a, b \in 1..Len(HeaderTissues) : HeaderTissues[a] = HeaderTissues[b] => a = b
NamesOf(list) == {list[k].tissue_name : k \in 1..Len(list)}
NoRepeat(list) ==
    \A a, b \in 1..Len(list) : list[a].tissue_name = list[b].tissue_name => a = b
NamesExclusive(e) ==
    /\ NamesOf(e.up_regulated) \cap NamesOf(e.down_regulated) = {}
    /\ NoRepeat(e.up_regulated)
    /\ NoRepeat(e.down_regulated)

\* C11 as stated: in every entry of every store built, no tissue name is in
\* both up_regulated and down_regulated, and none is twice in one list.
C11_Original ==
    StoreBuilt =>
        \A id \in DOMAIN outcome.v.results : NamesExclusive(outcome.v.results[id])

\* C11 (amended): in every entry of every store built, whatever threshold the
\* loader was given (0 and negative values included), the two lists together
\* hold at most one pair per tissue column; and when the tissue names of the
\* header are pairwise distinct, no tissue name is in both lists and none is
\* twice in one list.
C11_Exclusive ==
    StoreBuilt =>
        \A id \in DOMAIN outcome.v.results :
            LET e == outcome.v.results[id]
            IN  /\ Len(e.up_regulated) + Len(e.down_regulated)
                       <= outcome.v.metadata.num_tissues
                /\ TissuesDistinct => NamesExclusive(e)

\* a store built with threshold 0 from a header of distinct names, whose
\* entry has a tissue at z-score 0 (up only) besides a down-regulated one
C11_Witness ==
    /\ StoreBuilt
    /\ TissuesDistinct
    /\ loader.dge_threshold = Some(0)
    /\ \E id \in DOMAIN outcome.v.results :
          /\ Len(outcome.v.results[id].up_regulated) = 2
          /\ Len(outcome.v.results[id].down_regulated) = 1

(* ------------------------------------------------------------------------ *)
\* the threshold argument with its sign reversed, and its magnitude
Negated(t) == IF t.some THEN Some(0 - t.v) ELSE t
MagnitudeOf(x) == IF x < 0 THEN 0 - x ELSE x
\* the entry of well-formed row i under threshold t
EntryWith(i, t) ==
    LET Up(p) == ZGe(p.z_score, t)
        DownOnly(p) == ZLe(p.z_score, 0 - t) /\ ~ZGe(p.z_score, t)
    IN  [id |-> RowId(i), symbol |-> RowSymbol(i),
         up_regulated |-> SelectSeq(RowScores(i), Up),
         down_regulated |-> SelectSeq(RowScores(i), DownOnly)]

\* C12: a loader built with Some(-x) is the loader built with Some(x), so the
\* two have the same outcome on every input: the threshold it holds is never
\* negative, and every inserted row is classified under the magnitude of the
\* argument, whatever its sign.
C12_SignRemoved ==
    /\ loader = NewLoader(args.n_max, Negated(args.dge_threshold))
    /\ loader.dge_threshold.some => loader.dge_threshold.v >= 0
    /\ args.dge_threshold.some =>
          \A i \in 0..LastRow :
              Inserted(i) =>
                  /\ RowId(i) \in DOMAIN results
                  /\ results[RowId(i)] =
                         EntryWith(i, MagnitudeOf(args.dge_threshold.v))

\* a store built by a loader that was given -1, with a tissue up-regulated
\* at z = 1
C12_Witness ==
    /\ StoreBuilt
    /\ args.dge_threshold = Some(0 - 1)
    /\ \E id \in DOMAIN outcome.v.results :
          outcome.v.results[id].up_regulated # <<>>

(* ------------------------------------------------------------------------ *)
\* C13: a loader built with no threshold classifies every row of a load under
\* threshold 2.0, the threshold a loader built with Some(2.0) uses: every
\* inserted row has the entry that threshold 2 gives it.
C13_DefaultThreshold ==
    ~args.dge_threshold.some =>
        /\ ThresholdUsed(loader) = ThresholdUsed(NewLoader(args.n_max, Some(2)))
        /\ \A i \in 0..LastRow :
              Inserted(i) =>
                  /\ RowId(i) \in DOMAIN results
                  /\ results[RowId(i)] = EntryWith(i, 2)

\* a store built with no threshold given, holding two rows, one of them with
\* distinct values whose z-scores of magnitude 1 stay below 2
C13_Witness ==
    /\ StoreBuilt
    /\ ~args.dge_threshold.some
    /\ Cardinality(DOMAIN outcome.v.results) = 2
    /\ \E i \in 0..LastRow :
          /\ Inserted(i)
          /\ RowValues(i)[1] # RowValues(i)[2]
          /\ outcome.v.results[RowId(i)].up_regulated = <<>>
          /\ outcome.v.results[RowId(i)].down_regulated = <<>>

(* ------------------------------------------------------------------------ *)
\* row i is well formed, the first with its identifier, and all its values
\* are the same
RowConstant(i) ==
    /\ RowWellFormed(i)
    /\ \A k \in 0..(i - 1) : RowId(k) # RowId(i)
    /\ Len(RowValues(i)) >= 1
    /\ \A k \in 1..Len(RowValues(i)) : RowValues(i)[k] = RowValues(i)[1]

\* C14 as stated: a row whose values are all identical does not fail the load,
\* every one of its z-scores is non-finite, and its entry is inserted with
\* both lists empty.
C14_Original ==
    \A i \in parsed :
        RowConstant(i) =>
            /\ ~(Done /\ LastRow = i /\ outcome.tag \in {"Err", "Panic"})
            /\ RowId(i) \in DOMAIN results
            /\ \A k \in 1..Len(RowScores(i)) : ~IsFinite(RowScores(i)[k].z_score)
            /\ results[RowId(i)].up_regulated = <<>>
            /\ results[RowId(i)].down_regulated = <<>>

(* ------------------------------------------------------------------------ *)
\* what separate_id_symbol_tpm returns on each line of the menu
SeparatedLine == [l \in DataLines |-> SeparateIdSymbolTpm(l)]
\* the value words of line l that are not numbers, by position
BadWords(l) == {k \in 1..Len(WordsFrom(l, 3)) : ~IsNumber(WordsFrom(l, 3)[k])}
FirstBadWord(l) ==
    WordsFrom(l, 3)[CHOOSE k \in BadWords(l) : \A j \in BadWords(l) : k <= j]
IsValueParseError(e, id, token) ==
    /\ e.msg = "Invalid TPM value for gene ID {}: '{}'"
    /\ e.id = id /\ e.token = token

\* C16: on a line of two tokens or more, separate_id_symbol_tpm returns the
\* first token, the second token and the remaining tokens parsed in order when
\* every remaining token is numeric; otherwise it returns, with no value list,
\* the value-parse error that names the row's identifier and the leftmost
\* token that is not numeric, and the load returns that error.
C16_SeparateRow ==
    \A i \in parsed :
        RowIsText(i) /\ NumWords(RowText(i)) >= 2 =>
            LET r == SeparatedLine[RowText(i)]
            IN  IF RowSplits(i)
                THEN r = Ok([id |-> RowId(i), symbol |-> RowSymbol(i),
                             tpms |-> RowValues(i)])
                ELSE /\ r.tag = "Err"
                     /\ IsValueParseError(r.v, RowId(i), FirstBadWord(RowText(i)))
                     /\ Done /\ LastRow = i /\ outcome = r

\* a row with two tokens that are not numeric, x before y, has been parsed and
\* the load has returned the error naming x
C16_Witness ==
    /\ Done
    /\ LastRow \in parsed
    /\ RowIsText(LastRow)
    /\ Cardinality(BadWords(RowText(LastRow))) = 2
    /\ outcome.tag = "Err"
    /\ outcome.v.token = <<"x">>

(* ------------------------------------------------------------------------ *)
\* the counts of a GCTMetadata agree with its column names
Consistent(m) ==
    /\ Len(m.column_names) = m.num_tissues + 2
    /\ m.num_columns = m.num_tissues + 2
\* the schema the three header lines describe
HeaderSchema ==
    [version |-> VersionText,
     num_rows |-> DeclaredRows,
     num_columns |-> DeclaredTissues + 2,
     num_tissues |-> DeclaredTissues,
     column_names |-> WordsFrom(HeaderText, 1)]

\* C17 as stated: every GCTMetadata that exists, built by from_lines or by
\* GCTMetadata::new, has column_names.len = num_tissues + 2 = num_columns, and
\* the schema of a returned store is the one parsed from the header.
C17_Original ==
    /\ metadata.some => Consistent(metadata.v)
    /\ made.some => Consistent(made.v)
    /\ StoreBuilt => outcome.v.metadata = HeaderSchema

\* C17 (amended): every GCTMetadata built by from_lines has
\* column_names.len = num_tissues + 2 = num_columns, and the schema of a
\* returned store is the one parsed from the header, unchanged by the rows;
\* GCTMetadata::new checks nothing, so a value built with it carries whatever
\* counts and names it was given.
C17_FromLinesConsistent ==
    /\ metadata.some => Consistent(metadata.v) /\ metadata.v = HeaderSchema
    /\ StoreBuilt => outcome.v.metadata = HeaderSchema
    /\ made.some =>
          \E a \in MetadataArgs :
              /\ made.v.version = a.version
              /\ made.v.num_rows = a.num_rows
              /\ made.v.num_columns = a.num_columns
              /\ made.v.num_tissues = a.num_tissues
              /\ made.v.column_names = a.column_names

\* a store has been returned with its schema and an entry, while a caller
\* holds a GCTMetadata built by new with 3 tissues and 2 column names
C17_Witness ==
    /\ StoreBuilt
    /\ outcome.v.results # <<>>
    /\ made.some
    /\ made.v.num_tissues = 3
    /\ Len(made.v.column_names) = 2

(* ------------------------------------------------------------------------ *)
\* the population statistics of a row of values, in f32
StatMean(vals) == FDiv(FSum(vals), FromInt(Len(vals)))
SquaredDeviation(vals, k) ==
    FMul(FSub(vals[k], StatMean(vals)), FSub(vals[k], StatMean(vals)))
PopulationVariance(vals) ==
    FDiv(FSum([k \in 1..Len(vals) |-> SquaredDeviation(vals, k)]),
         FromInt(Len(vals)))
StandardDeviation(vals) == FSqrt(PopulationVariance(vals))
StatZ(vals, k) == FDiv(FSub(vals[k], StatMean(vals)), StandardDeviation(vals))
StatZOfLine ==
    [l \in {x \in DataLines : LineSplits(x)} |->
        [k \in 1..Len(LineValues(l)) |-> StatZ(LineValues(l), k)]]
\* the k-th tissue name paired with the k-th such z-score of row i
StatScores(i) ==
    [k \in 1..Len(StatZOfLine[RowText(i)]) |->
        [tissue_name |-> HeaderTissues[k], z_score |-> StatZOfLine[RowText(i)][k]]]

\* C18: the pairs an inserted row contributes carry the population z-scores:
\* mean = sum / n, variance = sum of squared deviations / n, sd = sqrt(variance),
\* z_k = (value_k - mean) / sd, paired with the k-th tissue name of the header.
C18_PopulationStatistics ==
    \A i \in 0..LastRow :
        Inserted(i) =>
            /\ RowId(i) \in DOMAIN results
            /\ results[RowId(i)].up_regulated = SelectSeq(StatScores(i), IsUp)
            /\ results[RowId(i)].down_regulated = SelectSeq(StatScores(i), IsDownOnly)

\* the row 0 1 2 is stored under threshold 1 with T3 at z = sqrt(3/2) in f32
\* (642119 * 2^-19 = 1.2247...), where the sample statistics would give 1
C18_Witness ==
    \E i \in 0..LastRow :
        /\ Inserted(i)
        /\ ThresholdUsed(loader) = 1
        /\ Len(RowValues(i)) = 3
        /\ RowId(i) \in DOMAIN results
        /\ results[RowId(i)].up_regulated =
              << [tissue_name |-> <<"T", "3">>,
                  z_score |-> [cls |-> "fin", sgn |-> 1, m |-> 642119, e |-> 0 - 19]] >>

(* ------------------------------------------------------------------------ *)
\* row i fails: it cannot be read, or it is a text of two words or more that
\* is not well formed or repeats the identifier of an earlier row
RowFails(i) ==
    \/ RowItem(i).tag = "Err"
    \/ /\ RowIsText(i)
       /\ NumWords(RowText(i)) >= 2
       /\ \/ ~RowWellFormed(i)
          \/ \E k \in 0..(i - 1) : RowId(k) = RowId(i)
\* e is the error row i raises
ErrorOfRow(e, i) ==
    IF RowItem(i).tag = "Err" THEN e.kind = "Other" /\ e.msg = "read failure"
    ELSE IF ~RowSplits(i)
    THEN IsValueParseError(e, RowId(i), FirstBadWord(RowText(i)))
    ELSE IF Len(RowValueWords(i)) # DeclaredTissues
    THEN IsRowCountError(e, i + 4, DeclaredTissues, Len(RowValueWords(i)))
    ELSE IsDuplicateError(e, RowId(i))
\* lines are requested one at a time: every row before the last one pulled
\* has been parsed and inserted with its entry, and did not fail
PulledLazily ==
    \A i \in 0..(LastRow - 1) :
        /\ Inserted(i)
        /\ ~RowFails(i)
        /\ RowId(i) \in DOMAIN results
        /\ results[RowId(i)] = RowEntry(i)
\* a load that failed on a data row failed on the last row pulled, with the
\* error of that row, and parsed nothing beyond it
FailedFast ==
    (Done /\ outcome.tag = "Err" /\ LastRow >= 0) =>
        /\ RowFails(LastRow)
        /\ ErrorOfRow(outcome.v, LastRow)
        /\ \A j \in parsed : j <= LastRow
\* once load_summary has returned, that load requests and parses nothing more
\* (the next step can only be a new load, which starts from an empty history)
StopsAfterReturn ==
    (pc = "done" /\ (pulled' # pulled \/ parsed' # parsed)) =>
        (pc' = "meta" /\ pulled' = <<>> /\ parsed' = {})

\* C19: the load is lazy and fail-fast: data line i + 1 is requested only after
\* row i has been split, validated, classified and inserted; the error of a
\* failed load is the one raised by the lowest-indexed failing row; and after
\* it no further line is requested or parsed.
C19_LazyFailFast ==
    /\ [](PulledLazily /\ FailedFast)
    /\ [][StopsAfterReturn]_vars

\* a load failed on its second row after inserting the first, with a third
\* line never requested
C19_Witness ==
    /\ Done
    /\ outcome.tag = "Err"
    /\ LastRow = 1
    /\ Inserted(0)
    /\ RowFails(1)
    /\ 1 \in parsed

(* ------------------------------------------------------------------------ *)
\* the three ways a row of two words or more can be at fault
HasBadValue(i) == BadWords(RowText(i)) # {}
HasWrongCount(i) == Len(RowValueWords(i)) # DeclaredTissues
HasSeenId(i) == \E k \in 0..(i - 1) : RowId(k) = RowId(i)
\* the load has returned an error raised by row i
FailedAt(i) == Done /\ outcome.tag = "Err" /\ LastRow = i

\* C20: within one data row the checks run in the order value parse, value
\* count, duplicate identifier, and the first that fails decides the error: a
\* non-numeric value gives the value-parse error whatever the count and the
\* identifier, a wrong count of numeric values gives the row-count error
\* whatever the identifier, and the duplicate error is raised only for a row
\* that passed both earlier checks.
C20_CheckOrder ==
    \A i \in parsed :
        (RowIsText(i) /\ NumWords(RowText(i)) >= 2) =>
            /\ HasBadValue(i) =>
                   /\ FailedAt(i)
                   /\ IsValueParseError(outcome.v, RowId(i), FirstBadWord(RowText(i)))
            /\ (~HasBadValue(i) /\ HasWrongCount(i)) =>
                   /\ FailedAt(i)
                   /\ IsRowCountError(outcome.v, i + 4, DeclaredTissues,
                                      Len(RowValueWords(i)))
            /\ (~HasBadValue(i) /\ ~HasWrongCount(i) /\ HasSeenId(i)) =>
                   /\ FailedAt(i)
                   /\ IsDuplicateError(outcome.v, RowId(i))
            /\ (FailedAt(i) /\ IsDuplicateError(outcome.v, RowId(i))) =>
                   (~HasBadValue(i) /\ ~HasWrongCount(i))

\* a row with a non-numeric value, a wrong count and an identifier already
\* stored was parsed and the load returned the value-parse error
C20_Witness ==
    /\ 1 \in parsed
    /\ RowIsText(1)
    /\ NumWords(RowText(1)) >= 2
    /\ HasBadValue(1) /\ HasWrongCount(1) /\ HasSeenId(1)
    /\ FailedAt(1)
    /\ IsValueParseError(outcome.v, RowId(1), FirstBadWord(RowText(1)))

(* ------------------------------------------------------------------------ *)
\* C21 (as stated): whatever the data lines are, blank and one-token lines
\* included, a load that has returned gave the caller a store or a typed
\* error, never an abort of the program; and every entry of the store has a
\* non-empty identifier and a symbol.
C21_Original ==
    /\ Done => outcome.tag \in {"Ok", "Err"}
    /\ \A id \in DOMAIN results :
           /\ Len(id) > 0
           /\ Len(results[id].symbol) > 0

(* ------------------------------------------------------------------------ *)
\* the outcome the input of the load in hand determines together with the
\* loader's configuration, computed from the lines pulled and nothing else
ItemAt(k) == IF k <= Len(pulled) THEN pulled[k] ELSE Eof
BadRows ==
    {i \in ProcessedRows :
        ~RowWellFormed(i) \/ \E k \in 0..(i - 1) : RowId(k) = RowId(i)}
FirstBadRow == CHOOSE i \in BadRows : \A j \in BadRows : i <= j
OutcomeOfRow(i) ==
    IF RowItem(i).tag = "Err" THEN Err(ReadError)
    ELSE IF NumWords(RowText(i)) < 2 THEN Panic
    ELSE IF ~RowSplits(i)
    THEN Err(InvalidTpmValue(RowId(i), FirstBadWord(RowText(i))))
    ELSE IF Len(RowValueWords(i)) # DeclaredTissues
    THEN Err(InvalidTpmCount(i + 4, DeclaredTissues, Len(RowValueWords(i))))
    ELSE Err(DuplicateId(RowId(i)))
StoreOfInput ==
    [id \in {RowId(i) : i \in ProcessedRows} |->
        RowEntry(CHOOSE i \in ProcessedRows : RowId(i) = id)]
OutcomeOfInput ==
    LET schema == FromLines(ItemAt(1), ItemAt(2), ItemAt(3)).res
    IN  IF schema.tag # "Ok" THEN schema
        ELSE IF BadRows # {} THEN OutcomeOfRow(FirstBadRow)
        ELSE Ok(NewGtexSummary(schema.v, StoreOfInput))
\* the configuration is the one the loader was constructed with
ConfigurationKept ==
    /\ loader.n_max = args.n_max
    /\ loader.dge_threshold =
          (IF args.dge_threshold.some THEN Some(Abs(args.dge_threshold.v))
           ELSE None)
\* the mapping of the load in hand holds rows of its own input only
OwnRowsOnly ==
    /\ pc \in {"idle", "meta"} => results = <<>>
    /\ \A id \in DOMAIN results : \E i \in parsed : Inserted(i) /\ RowId(i) = id
\* a duplicate-identifier error names an identifier of an earlier row of the
\* same input, whatever earlier loads have stored
DuplicateIsOwn ==
    (Done /\ outcome.tag = "Err" /\ IsDuplicateError(outcome.v, outcome.v.id)) =>
        \E k \in 0..(LastRow - 1) : RowHasId(k) /\ RowId(k) = outcome.v.id
\* a step of load_summary leaves the loader as it is, and a step that starts a
\* load starts it from an empty mapping
LoadKeepsLoader ==
    /\ loader' = loader
    /\ (pc' = "meta" /\ pc # "meta") => results' = <<>>

\* C22: loads do not interfere: load_summary leaves the loader's row cap and
\* threshold unchanged, every load starts from an empty result mapping, an
\* identifier stored by an earlier load never causes a duplicate-identifier
\* error in a later one, and the outcome of every load is the one its own input
\* and the loader's configuration determine, so that the same input loaded
\* twice gives equal outcomes.
C22_LoadsIndependent ==
    /\ [](ConfigurationKept /\ OwnRowsOnly /\ DuplicateIsOwn
            /\ (Done => outcome = OutcomeOfInput))
    /\ [][LoadKeepsLoader]_vars

\* a later load returned a store holding an identifier that an earlier load on
\* the same loader had stored
C22_Witness ==
    /\ Done
    /\ outcome.tag = "Ok"
    /\ earlier # {}
    /\ \E i \in parsed : Inserted(i) /\ RowId(i) \in earlier
    /\ outcome = OutcomeOfInput

(* ------------------------------------------------------------------------ *)
\* C23: the declared row count is stored in the schema and never checked
\* against the data: with a valid three-line header a finished load succeeds
\* exactly when its processed rows are free of row-level errors, whatever the
\* declared row count is; the store then carries the declared count, holds one
\* entry per processed row (none when no data line follows the header), and
\* every key is the identifier of its entry.
C23_RowCountUnchecked ==
    (Done /\ HeaderWellFormed) =>
        /\ outcome.tag = "Ok" <=> AllRowsGood
        /\ outcome.tag = "Ok" =>
              /\ outcome.v.metadata.num_rows = DeclaredRows
              /\ Cardinality(DOMAIN outcome.v.results) = Cardinality(ProcessedRows)
              /\ (Len(pulled) = 4 /\ pulled[4].tag = "None") =>
                     outcome.v.results = <<>>
              /\ \A id \in DOMAIN outcome.v.results :
                     outcome.v.results[id].id = id

\* a load returned a store whose number of entries, one at least, differs from
\* the row count its size line declared
C23_Witness ==
    /\ Done
    /\ HeaderWellFormed
    /\ outcome.tag = "Ok"
    /\ Cardinality(DOMAIN outcome.v.results) >= 1
    /\ Cardinality(DOMAIN outcome.v.results) # DeclaredRows
    /\ outcome.v.metadata.num_rows = DeclaredRows

====
